---- MODULE Spec2Model ----
(***************************************************************************)
(* A model of framework/graph_search/best_first_search.py:                 *)
(*   - SearchNodesPriorityQueue (the `open` queue),                        *)
(*   - SearchNodesCollection    (the `close` set),                         *)
(*   - BestFirstSearch.solve_problem (the expansion loop).                 *)
(* Three specifications share the module: SpecOpen drives the open queue   *)
(* with arbitrary calls, SpecClose drives the close set with arbitrary     *)
(* calls, and Spec runs solve_problem on small graph problems.             *)
(***************************************************************************)
EXTENDS Integers, Sequences, FiniteSets, TLC

VARIABLES
    open,        \* self.open : SearchNodesPriorityQueue
    close,       \* self.close: SearchNodesCollection (its mapping; None iff not use_close)
    last,        \* the last call a driver made on a collection: operation, argument, outcome
    solver,      \* the BestFirstSearch object's configuration and strategy
    problem,     \* the GraphProblem being solved
    pc,          \* where solve_problem stands
    mem,         \* the SearchNode objects created by this call, by id
    run,         \* the locals of solve_problem
    pending,     \* the operator results the for loop has still to handle
    result,      \* the SearchResult returned
    peak,        \* history: the largest len(open) + len(close) so far, at any point
                 \* (any) and at the points between two statements of solve_problem (seen)
    hist         \* history: what the calls of solve_problem have done so far

(***************************************************************************)
(* Bounds of the model.                                                    *)
(***************************************************************************)
MaxQueue == 3      \* the driver stops pushing when the heap holds this many entries
MaxBudget == 2     \* max_nr_states_to_expand is None or in 0..MaxBudget
MaxNodes == 6      \* a call of solve_problem creates at most this many SearchNode objects
MaxChain == 4      \* the linear chains have 2..MaxChain states

(***************************************************************************)
(* Search nodes.  A SearchNode is a Python object compared by identity:    *)
(* the record as a whole stands for the object, and `id` tells apart two   *)
(* objects that agree on every other field.  In solve_problem `id` is the  *)
(* index of the object in mem, and `parent` is the id of the parent node,  *)
(* 0 for None.                                                             *)
(***************************************************************************)
NoNode == [id |-> 0, state |-> 0, parent |-> 0, g_cost |-> 0, expanding_priority |-> 0]

SearchNode(i, s, p, g, prio) ==
    [id |-> i, state |-> s, parent |-> p, g_cost |-> g, expanding_priority |-> prio]

\* hash(state): an int-valued function of the state that is not injective.
Hash(s) == s % 2

(***************************************************************************)
(* Dictionaries with a dynamic key set.                                    *)
(***************************************************************************)
EmptyMap == << >>

MapPut(f, k, v) == [x \in (DOMAIN f) \cup {k} |-> IF x = k THEN v ELSE f[x]]

MapDel(f, k) == [x \in (DOMAIN f) \ {k} |-> f[x]]

(***************************************************************************)
(* heapdict: a mapping key -> value whose popitem/peekitem give an entry   *)
(* of minimal value.  Values here are the 3-tuples built by push_node,     *)
(* compared as Python compares tuples.                                     *)
(***************************************************************************)
TupleLeq(a, b) ==
    \/ a[1] < b[1]
    \/ a[1] = b[1] /\ a[2] < b[2]
    \/ a[1] = b[1] /\ a[2] = b[2] /\ a[3] <= b[3]

HeapSetItem(h, node, key) == MapPut(h, node, key)

HeapMinNodes(h) == {n \in DOMAIN h : \A m \in DOMAIN h : TupleLeq(h[n], h[m])}

HeapEmpty(h) == DOMAIN h = {}

(***************************************************************************)
(* SearchNodesPriorityQueue.  Every operation is an operator giving the    *)
(* set of outcomes of the call: ok (returned normally), error (the         *)
(* exception raised otherwise), q (the queue after the call) and ret.      *)
(***************************************************************************)
EmptyQueue == [nodes_queue |-> EmptyMap, mapping |-> EmptyMap]

Outcome(isOk, err, q, ret) == [ok |-> isOk, error |-> err, q |-> q, ret |-> ret]

PQ_has_state(q, s) == s \in DOMAIN q.mapping

PQ_get_node_by_state(q, s) == IF s \in DOMAIN q.mapping THEN q.mapping[s] ELSE NoNode

PQ_len(q) == Cardinality(DOMAIN q.nodes_queue)

PQ_is_empty(q) == HeapEmpty(q.nodes_queue)

NodeKeyWrongTieBreak(node) == <<node.expanding_priority, node.g_cost, Hash(node.state)>>

NodeKey(node) == <<node.expanding_priority, 0 - node.g_cost, Hash(node.state)>>

PQ_push_node(q, node) ==
    IF node.state \in DOMAIN q.mapping
    THEN {Outcome(FALSE, "AssertionError", q, NoNode)}
    ELSE {Outcome(TRUE, "", [nodes_queue |-> HeapSetItem(q.nodes_queue, node, NodeKey(node)),
                             mapping |-> MapPut(q.mapping, node.state, node)], NoNode)}

PQ_pop_next_node_KeepsMapping(q) ==
    IF HeapEmpty(q.nodes_queue)
    THEN {Outcome(FALSE, "IndexError", q, NoNode)}
    ELSE {Outcome(TRUE, "", [nodes_queue |-> MapDel(q.nodes_queue, node),
                             mapping |-> q.mapping], node)
          : node \in HeapMinNodes(q.nodes_queue)}

PQ_pop_next_node(q) ==
    IF HeapEmpty(q.nodes_queue)
    THEN {Outcome(FALSE, "IndexError", q, NoNode)}
    ELSE {IF node.state \in DOMAIN q.mapping
          THEN Outcome(TRUE, "", [nodes_queue |-> MapDel(q.nodes_queue, node),
                                  mapping |-> MapDel(q.mapping, node.state)], node)
          ELSE Outcome(FALSE, "KeyError", [nodes_queue |-> MapDel(q.nodes_queue, node),
                                           mapping |-> q.mapping], NoNode)
          : node \in HeapMinNodes(q.nodes_queue)}

PQ_peek_next_node(q) ==
    IF HeapEmpty(q.nodes_queue)
    THEN {Outcome(FALSE, "IndexError", q, NoNode)}
    ELSE {Outcome(TRUE, "", q, node) : node \in HeapMinNodes(q.nodes_queue)}

PQ_extract_node(q, node) ==
    IF node.state \notin DOMAIN q.mapping
    THEN {Outcome(FALSE, "KeyError", q, NoNode)}
    ELSE IF node \notin DOMAIN q.nodes_queue
         THEN {Outcome(FALSE, "KeyError", [nodes_queue |-> q.nodes_queue,
                                           mapping |-> MapDel(q.mapping, node.state)], NoNode)}
         ELSE {Outcome(TRUE, "", [nodes_queue |-> MapDel(q.nodes_queue, node),
                                  mapping |-> MapDel(q.mapping, node.state)], NoNode)}

(***************************************************************************)
(* SearchNodesCollection, as its state -> node mapping.                    *)
(***************************************************************************)
EmptyCollection == EmptyMap

SC_add_node(c, node) ==
    IF node.state \in DOMAIN c
    THEN {Outcome(FALSE, "AssertionError", c, NoNode)}
    ELSE {Outcome(TRUE, "", MapPut(c, node.state, node), NoNode)}

SC_remove_node_Tolerant(c, node) == {Outcome(TRUE, "", MapDel(c, node.state), NoNode)}

SC_remove_node(c, node) ==
    IF node.state \notin DOMAIN c
    THEN {Outcome(FALSE, "AssertionError", c, NoNode)}
    ELSE {Outcome(TRUE, "", MapDel(c, node.state), NoNode)}

SC_has_node_StateOnly(c, node) == node.state \in DOMAIN c

SC_has_node(c, node) == node.state \in DOMAIN c /\ node = c[node.state]

SC_has_state(c, s) == s \in DOMAIN c

SC_get_node_by_state(c, s) == IF s \in DOMAIN c THEN c[s] ELSE NoNode

SC_len(c) == Cardinality(DOMAIN c)

(***************************************************************************)
(* Drivers of the two collections: any caller, any order of calls, with    *)
(* any node object of a small universe as argument.                        *)
(***************************************************************************)
ObjectIds == {1, 2}

CallerStates == {1, 2}

Priorities == {0, 1}

Costs == {0, 1}

CallerNodes ==
    {SearchNode(i, s, 0, g, prio) : i \in ObjectIds, s \in CallerStates, g \in Costs, prio \in Priorities}

\* A call: the operation, its argument, the node the collection held for the
\* argument's state when it was called, and how the call ended.
Call(op, node, before, o) ==
    [op |-> op, node |-> node, before |-> before, ok |-> o.ok, error |-> o.error, ret |-> o.ret]

NoCall ==
    [op |-> "none", node |-> NoNode, before |-> NoNode, ok |-> TRUE, error |-> "", ret |-> NoNode]

engineVars == <<solver, problem, pc, mem, run, pending, result, peak, hist>>

vars == <<open, close, last, solver, problem, pc, mem, run, pending, result, peak, hist>>

None == 0 - 1

NoRun ==
    [final_search_node |-> NoNode, nr_expanded_states |-> 0, max_nr_stored_states |-> 0,
     exceeded_max_nr_expanded_states |-> FALSE, next_node_to_expand |-> NoNode,
     successor_node |-> NoNode, loop_exit |-> ""]

NoResult ==
    [has_path |-> FALSE, solution_path |-> << >>, nr_expanded_states |-> 0,
     max_nr_stored_states |-> 0, stop_reason |-> ""]

NoPeak == [any |-> 0, seen |-> 0]

NoProblem == [initial_state |-> 0, goals |-> {}, edges |-> {}, chain |-> 0]

\* History of the calls of solve_problem on this object:
\*   calls              calls started so far
\*   mem_base           number of node objects that existed when this call started
\*   init_solver_calls  calls of _init_solver in this call
\*   at_init_solver     open, close and the nodes created, as _init_solver found them
\*   extractions        calls of _extract_next_search_node_to_expand in this call
\*   popped             ids of the nodes these calls took out of open
\*   expanded           ids of the nodes expand_state_with_costs was called for
\*   calc_calls         calls of _calc_node_expanding_priority in this call
\*   hook_called        whether the last round of the for loop called _open_successor_node
\*   choice             whether this call met a tie in the queue or a policy with a choice
\*   first              the call before this one: its problem, result and choice,
\*                      and the number of nodes it left in open and close
NoFirst == [problem |-> NoProblem, result |-> NoResult, choice |-> FALSE, stored |-> 0]

NoSnapshot == [open |-> EmptyQueue, close |-> EmptyCollection, created |-> 0]

NoHist ==
    [calls |-> 0, mem_base |-> 0, init_solver_calls |-> 0, at_init_solver |-> NoSnapshot,
     extractions |-> 0, popped |-> {}, expanded |-> {}, calc_calls |-> 0,
     hook_called |-> FALSE, choice |-> FALSE, first |-> NoFirst]

NoSolver ==
    [use_close |-> TRUE, max_nr_states_to_expand |-> None, open_criterion |-> "None",
     priority |-> "g_cost", policy |-> "push_if_new"]

EngineIdle ==
    /\ solver = NoSolver
    /\ problem = NoProblem
    /\ pc = "unused"
    /\ mem = << >>
    /\ run = NoRun
    /\ pending = << >>
    /\ result = NoResult
    /\ peak = NoPeak
    /\ hist = NoHist

InitOpen ==
    /\ open = EmptyQueue
    /\ close = EmptyCollection
    /\ last = NoCall
    /\ EngineIdle

PushNode ==
    \E node \in CallerNodes : \E o \in PQ_push_node(open, node) :
        /\ PQ_len(open) < MaxQueue
        /\ open' = o.q
        /\ last' = Call("push_node", node, PQ_get_node_by_state(open, node.state), o)
        /\ UNCHANGED <<close, engineVars>>

PopNextNode ==
    \E o \in PQ_pop_next_node(open) :
        /\ open' = o.q
        /\ last' = Call("pop_next_node", NoNode, NoNode, o)
        /\ UNCHANGED <<close, engineVars>>

PeekNextNode ==
    \E o \in PQ_peek_next_node(open) :
        /\ open' = o.q
        /\ last' = Call("peek_next_node", NoNode, NoNode, o)
        /\ UNCHANGED <<close, engineVars>>

ExtractNode ==
    \E node \in CallerNodes : \E o \in PQ_extract_node(open, node) :
        /\ open' = o.q
        /\ last' = Call("extract_node", node, PQ_get_node_by_state(open, node.state), o)
        /\ UNCHANGED <<close, engineVars>>

NextOpen == PushNode \/ PopNextNode \/ PeekNextNode \/ ExtractNode

SpecOpen == InitOpen /\ [][NextOpen]_vars

InitClose ==
    /\ open = EmptyQueue
    /\ close = EmptyCollection
    /\ last = NoCall
    /\ EngineIdle

AddNode ==
    \E node \in CallerNodes : \E o \in SC_add_node(close, node) :
        /\ close' = o.q
        /\ last' = Call("add_node", node, SC_get_node_by_state(close, node.state), o)
        /\ UNCHANGED <<open, engineVars>>

RemoveNode ==
    \E node \in CallerNodes : \E o \in SC_remove_node(close, node) :
        /\ close' = o.q
        /\ last' = Call("remove_node", node, SC_get_node_by_state(close, node.state), o)
        /\ UNCHANGED <<open, engineVars>>

NextClose == AddNode \/ RemoveNode

SpecClose == InitClose /\ [][NextClose]_vars

(***************************************************************************)
(* Graph problems.  A problem is the initial state 1, a set of goal states  *)
(* and a subset of the edges below; expand_state_with_costs gives the      *)
(* chosen edges that leave the state, in the order of the list.  A linear  *)
(* chain of n states 1 -> 2 -> ... -> n with unit costs and goal n is the  *)
(* problem whose `chain` is n.                                             *)
(***************************************************************************)
Edge(f, t, c) == [from |-> f, successor_state |-> t, operator_cost |-> c]

AllEdges == <<Edge(1, 2, 1), Edge(1, 3, 3), Edge(2, 3, 1), Edge(2, 1, 1), Edge(3, 2, 1)>>

GoalSets == {{}, {1}, {3}, {2, 3}}

GraphProblems ==
    {[initial_state |-> 1, goals |-> g, edges |-> e, chain |-> 0] :
        g \in GoalSets, e \in SUBSET (DOMAIN AllEdges)}

Chain(n) == [initial_state |-> 1, goals |-> {n}, edges |-> {}, chain |-> n]

ChainProblems == {Chain(n) : n \in 2..MaxChain}

Problems == GraphProblems \cup ChainProblems

RECURSIVE EdgesFrom(_, _, _)
EdgesFrom(p, s, i) ==
    IF i > Len(AllEdges) THEN << >>
    ELSE IF i \in p.edges /\ AllEdges[i].from = s
         THEN <<AllEdges[i]>> \o EdgesFrom(p, s, i + 1)
         ELSE EdgesFrom(p, s, i + 1)

ExpandStateWithCosts(p, s) ==
    EdgesFrom(p, s, 1) \o (IF s < p.chain THEN <<Edge(s, s + 1, 1)>> ELSE << >>)

IsGoal(p, s) == s \in p.goals

GetZeroCost == 0

(***************************************************************************)
(* The strategy: the two abstract methods and the optional filter.         *)
(***************************************************************************)
Heuristic(s) == 3 - s

\* _calc_node_expanding_priority: uniform cost or greedy best first.
CalcNodeExpandingPriority(sv, node) ==
    IF sv.priority = "g_cost" THEN node.g_cost ELSE Heuristic(node.state)

\* open_criterion: None, or a predicate of the node.
CriterionAccepts(sv, node) ==
    \/ sv.open_criterion = "None"
    \/ sv.open_criterion = "cheap" /\ node.g_cost <= 2

\* SearchNode(state, parent_search_node, operator_cost): g_cost is the parent's
\* g_cost plus the operator cost.
NewSearchNode(i, s, parent, operator_cost) ==
    SearchNode(i, s, parent.id, parent.g_cost + operator_cost, 0)

RECURSIVE MakeStatesPath(_, _)
MakeStatesPath(m, node) ==
    IF node.parent = 0 THEN <<node.state>>
    ELSE Append(MakeStatesPath(m, m[node.parent]), node.state)

Max(a, b) == IF a >= b THEN a ELSE b

The(S) == CHOOSE o \in S : TRUE

\* _get_current_nr_stored_states
CurrentNrStoredStatesOpenOnly(sv, q, c) == PQ_len(q)

CurrentNrStoredStates(sv, q, c) == PQ_len(q) + (IF sv.use_close THEN SC_len(c) ELSE 0)

\* Lines 157-162: the node of a successor, with its priority.
SuccessorNodeWithoutParent(sv, i, parent, operator_result) ==
    LET node == NewSearchNode(i, operator_result.successor_state, NoNode,
                              operator_result.operator_cost)
    IN  [node EXCEPT !.expanding_priority = CalcNodeExpandingPriority(sv, node)]

SuccessorNode(sv, i, parent, operator_result) ==
    LET node == NewSearchNode(i, operator_result.successor_state, parent,
                              operator_result.operator_cost)
    IN  [node EXCEPT !.expanding_priority = CalcNodeExpandingPriority(sv, node)]

\* Line 148: the budget test.
BudgetReachedOffByOne(sv, r) ==
    /\ sv.max_nr_states_to_expand # None
    /\ r.nr_expanded_states > sv.max_nr_states_to_expand

BudgetReachedIgnoresZero(sv, r) ==
    /\ sv.max_nr_states_to_expand # None
    /\ sv.max_nr_states_to_expand # 0
    /\ r.nr_expanded_states >= sv.max_nr_states_to_expand

BudgetReachedTooEarly(sv, r) ==
    /\ sv.max_nr_states_to_expand # None
    /\ r.nr_expanded_states + 1 >= sv.max_nr_states_to_expand

BudgetReachedNever(sv, r) == FALSE

BudgetReached(sv, r) ==
    /\ sv.max_nr_states_to_expand # None
    /\ r.nr_expanded_states >= sv.max_nr_states_to_expand

\* Lines 167-168: the stop reason.
StopReasonAlwaysCompleted(r) == "CompletedRunSuccessfully"

StopReason(r) ==
    IF r.exceeded_max_nr_expanded_states
    THEN "ExceededMaxNrStatesToExpand" ELSE "CompletedRunSuccessfully"

\* History of len(open) + len(close), close being empty when it is None.
Stored(q, c) == Cardinality(DOMAIN q.nodes_queue) + Cardinality(DOMAIN c)

Peak(old, transient, q, c) ==
    [any |-> Max(old.any, Max(transient, Stored(q, c))), seen |-> Max(old.seen, Stored(q, c))]

(***************************************************************************)
(* _open_successor_node: what a strategy may do with a successor node.     *)
(* Each effect gives open and close after the call and the stored count    *)
(* in the middle of it.                                                    *)
(***************************************************************************)
Effect(sv, q, c, qmid, cmid) ==
    [open |-> q, close |-> c, transient |-> PQ_len(qmid) + SC_len(cmid)]

Discard(sv, q, c, node) == {Effect(sv, q, c, q, c)}

Push(sv, q, c, node) ==
    {Effect(sv, o.q, c, o.q, c) : o \in {x \in PQ_push_node(q, node) : x.ok}}

ReplaceInOpen(sv, q, c, node) ==
    IF ~PQ_has_state(q, node.state) THEN {}
    ELSE LET q1 == The(PQ_extract_node(q, PQ_get_node_by_state(q, node.state))).q
         IN  {Effect(sv, o.q, c, q1, c) : o \in PQ_push_node(q1, node)}

ReopenFromClose(sv, q, c, node) ==
    IF ~sv.use_close \/ ~SC_has_state(c, node.state) \/ PQ_has_state(q, node.state) THEN {}
    ELSE LET c1 == The(SC_remove_node(c, SC_get_node_by_state(c, node.state))).q
         IN  {Effect(sv, o.q, c1, q, c1) : o \in PQ_push_node(q, node)}

PushThenEvict(sv, q, c, node) ==
    UNION {{Effect(sv, x.q, c, o.q, c) :
                x \in UNION {PQ_extract_node(o.q, m) : m \in (DOMAIN o.q.nodes_queue) \ {node}}}
           : o \in {x \in PQ_push_node(q, node) : x.ok}}

PushIfNew(sv, q, c, node) ==
    IF PQ_has_state(q, node.state) \/ (sv.use_close /\ SC_has_state(c, node.state))
    THEN Discard(sv, q, c, node)
    ELSE Push(sv, q, c, node)

OpenSuccessorNode(sv, q, c, node) ==
    IF sv.policy = "push_if_new" THEN PushIfNew(sv, q, c, node)
    ELSE Discard(sv, q, c, node) \cup Push(sv, q, c, node)
            \cup ReplaceInOpen(sv, q, c, node) \cup ReopenFromClose(sv, q, c, node)
            \cup PushThenEvict(sv, q, c, node)

(***************************************************************************)
(* BestFirstSearch.solve_problem.                                          *)
(***************************************************************************)
Solvers ==
    [use_close : BOOLEAN, max_nr_states_to_expand : {None} \cup 0..MaxBudget,
     open_criterion : {"None", "cheap"}, priority : {"g_cost", "heuristic"},
     policy : {"push_if_new", "any"}]

Init ==
    /\ open = EmptyQueue
    /\ close = EmptyCollection
    /\ last = NoCall
    /\ solver \in Solvers
    /\ problem \in Problems
    /\ pc = "call"
    /\ mem = << >>
    /\ run = NoRun
    /\ pending = << >>
    /\ result = NoResult
    /\ peak = NoPeak
    /\ hist = NoHist

\* Line 125: self.open of this call.
ReusedOpen(q) == q

FreshOpen(q) == EmptyQueue

\* Lines 126-129: self.close of this call (empty stands for None as well).
FreshClose(c) == EmptyCollection

\* Lines 118-129: the locals and the collections of this call.
Construct ==
    /\ pc = "call"
    /\ run' = NoRun
    /\ open' = FreshOpen(open)
    /\ close' = FreshClose(close)
    /\ pending' = << >>
    /\ peak' = NoPeak
    /\ hist' = [hist EXCEPT !.calls = @ + 1, !.mem_base = Len(mem),
                            !.init_solver_calls = 0, !.at_init_solver = NoSnapshot,
                            !.extractions = 0, !.popped = {}, !.expanded = {},
                            !.calc_calls = 0, !.hook_called = FALSE, !.choice = FALSE]
    /\ pc' = "init_solver"
    /\ UNCHANGED <<last, solver, problem, mem, result>>

\* Line 130 and _init_solver (lines 179-185), which does nothing by default.
InitSolver ==
    /\ pc = "init_solver"
    /\ hist' = [hist EXCEPT !.init_solver_calls = @ + 1,
                            !.at_init_solver = [open |-> open, close |-> close,
                                                created |-> Len(mem) - hist.mem_base]]
    /\ pc' = "seed"
    /\ UNCHANGED <<open, close, last, solver, problem, mem, run, pending, result, peak>>

\* Lines 133-135: the initial node and its priority.
InitialNodeUnscored(sv, p, i) == NewSearchNode(i, p.initial_state, NoNode, GetZeroCost)

InitialNode(sv, p, i) ==
    LET node == NewSearchNode(i, p.initial_state, NoNode, GetZeroCost)
    IN  [node EXCEPT !.expanding_priority = CalcNodeExpandingPriority(sv, node)]

\* Lines 133-139: the initial node is pushed and the stored states are counted.
Seed ==
    /\ pc = "seed"
    /\ LET node == InitialNode(solver, problem, Len(mem) + 1)
           o == The(PQ_push_node(open, node))
       IN  /\ open' = o.q
           /\ mem' = Append(mem, node)
           /\ hist' = [hist EXCEPT !.calc_calls = @ + 1]
           /\ IF o.ok
              THEN /\ run' = [run EXCEPT !.max_nr_stored_states =
                                    Max(@, CurrentNrStoredStates(solver, o.q, close))]
                   /\ peak' = Peak(peak, 0, o.q, close)
                   /\ pc' = "loop"
              ELSE /\ pc' = "raised"
                   /\ UNCHANGED <<run, peak>>
    /\ UNCHANGED <<close, last, solver, problem, pending, result>>

\* _extract_next_search_node_to_expand (lines 193-198): how the call ends (ok:
\* it returned ret), and open and close after it.
Extracted(isOk, ret, q, c) == [ok |-> isOk, ret |-> ret, open |-> q, close |-> c]

ExtractOutcomesPeeks(sv, q, c) ==
    IF PQ_is_empty(q)
    THEN {Extracted(TRUE, NoNode, q, c)}
    ELSE {IF ~o.ok \/ ~sv.use_close
          THEN Extracted(o.ok, o.ret, o.q, c)
          ELSE LET a == The(SC_add_node(c, o.ret))
               IN  Extracted(a.ok, IF a.ok THEN o.ret ELSE NoNode, o.q, a.q)
          : o \in PQ_peek_next_node(q)}

ExtractOutcomesWithoutClose(sv, q, c) ==
    IF PQ_is_empty(q)
    THEN {Extracted(TRUE, NoNode, q, c)}
    ELSE {Extracted(o.ok, o.ret, o.q, c) : o \in PQ_pop_next_node(q)}

ExtractOutcomes(sv, q, c) ==
    IF PQ_is_empty(q)
    THEN {Extracted(TRUE, NoNode, q, c)}
    ELSE {IF ~o.ok \/ ~sv.use_close
          THEN Extracted(o.ok, o.ret, o.q, c)
          ELSE LET a == The(SC_add_node(c, o.ret))
               IN  Extracted(a.ok, IF a.ok THEN o.ret ELSE NoNode, o.q, a.q)
          : o \in PQ_pop_next_node(q)}

\* Line 141: the call of _extract_next_search_node_to_expand.
ExtractNextSearchNodeToExpand ==
    /\ pc = "loop"
    /\ \E x \in ExtractOutcomes(solver, open, close) :
        /\ open' = x.open
        /\ close' = x.close
        /\ hist' = [hist EXCEPT
                        !.extractions = @ + 1,
                        !.popped = @ \cup {n.id : n \in (DOMAIN open.nodes_queue)
                                                            \ (DOMAIN x.open.nodes_queue)},
                        !.choice = @ \/ Cardinality(ExtractOutcomes(solver, open, close)) > 1]
        /\ IF x.ok
           THEN /\ run' = [run EXCEPT !.next_node_to_expand = x.ret]
                /\ pc' = "check"
           ELSE /\ pc' = "raised"
                /\ UNCHANGED run
    /\ UNCHANGED <<last, solver, problem, mem, pending, result, peak>>

\* Lines 142-152: the locals after the tests of the loop body; loop_exit names
\* the break taken, and is empty when the node is counted as expanded.
RunAfterCheckCountsGoal(sv, p, r) ==
    LET node == r.next_node_to_expand
    IN  IF node = NoNode
        THEN [r EXCEPT !.loop_exit = "OpenExhausted"]
        ELSE IF IsGoal(p, node.state)
        THEN [r EXCEPT !.final_search_node = node, !.loop_exit = "GoalFound",
                       !.nr_expanded_states = @ + 1]
        ELSE IF BudgetReached(sv, r)
        THEN [r EXCEPT !.exceeded_max_nr_expanded_states = TRUE, !.loop_exit = "BudgetExceeded"]
        ELSE [r EXCEPT !.nr_expanded_states = @ + 1, !.loop_exit = ""]

RunAfterCheckBudgetFirst(sv, p, r) ==
    LET node == r.next_node_to_expand
    IN  IF node = NoNode
        THEN [r EXCEPT !.loop_exit = "OpenExhausted"]
        ELSE IF BudgetReached(sv, r)
        THEN [r EXCEPT !.exceeded_max_nr_expanded_states = TRUE, !.loop_exit = "BudgetExceeded"]
        ELSE IF IsGoal(p, node.state)
        THEN [r EXCEPT !.final_search_node = node, !.loop_exit = "GoalFound"]
        ELSE [r EXCEPT !.nr_expanded_states = @ + 1, !.loop_exit = ""]

RunAfterCheck(sv, p, r) ==
    LET node == r.next_node_to_expand
    IN  IF node = NoNode
        THEN [r EXCEPT !.loop_exit = "OpenExhausted"]
        ELSE IF IsGoal(p, node.state)
        THEN [r EXCEPT !.final_search_node = node, !.loop_exit = "GoalFound"]
        ELSE IF BudgetReached(sv, r)
        THEN [r EXCEPT !.exceeded_max_nr_expanded_states = TRUE, !.loop_exit = "BudgetExceeded"]
        ELSE [r EXCEPT !.nr_expanded_states = @ + 1, !.loop_exit = ""]

\* Lines 142-155: the three exits of the loop, or the count of the expansion
\* and the call of expand_state_with_costs.
CheckNode ==
    /\ pc = "check"
    /\ run' = RunAfterCheck(solver, problem, run)
    /\ IF run'.loop_exit # ""
       THEN /\ pc' = "return"
            /\ UNCHANGED <<pending, hist>>
       ELSE /\ pending' = ExpandStateWithCosts(problem, run.next_node_to_expand.state)
            /\ hist' = [hist EXCEPT !.expanded = @ \cup {run.next_node_to_expand.id}]
            /\ pc' = IF pending' = << >> THEN "loop" ELSE "expand"
    /\ UNCHANGED <<open, close, last, solver, problem, mem, result, peak>>

\* Line 163: whether the successor node is handed to _open_successor_node.
FilterIgnored(sv, node) == TRUE

PassesFilter(sv, node) == CriterionAccepts(sv, node)

\* Lines 155-165: one round of the for loop.
HandleSuccessor ==
    /\ pc = "expand"
    /\ Len(mem) - hist.mem_base < MaxNodes
    /\ LET operator_result == Head(pending)
           node == SuccessorNode(solver, Len(mem) + 1, run.next_node_to_expand, operator_result)
           effects == IF PassesFilter(solver, node)
                      THEN OpenSuccessorNode(solver, open, close, node)
                      ELSE Discard(solver, open, close, node)
       IN  /\ mem' = Append(mem, node)
           /\ hist' = [hist EXCEPT !.calc_calls = @ + 1,
                                   !.hook_called = PassesFilter(solver, node),
                                   !.choice = @ \/ Cardinality(effects) > 1]
           /\ \E e \in effects :
                /\ open' = e.open
                /\ close' = e.close
                /\ run' = [run EXCEPT
                            !.successor_node = node,
                            !.max_nr_stored_states =
                                Max(@, CurrentNrStoredStates(solver, e.open, e.close))]
                /\ peak' = Peak(peak, e.transient, e.open, e.close)
    /\ pending' = Tail(pending)
    /\ pc' = IF pending' = << >> THEN "loop" ELSE "expand"
    /\ UNCHANGED <<last, solver, problem, result>>

\* Lines 167-177: the SearchResult.
ReturnResult ==
    /\ pc = "return"
    /\ result' = [has_path |-> run.final_search_node # NoNode,
                  solution_path |-> IF run.final_search_node # NoNode
                                    THEN MakeStatesPath(mem, run.final_search_node)
                                    ELSE << >>,
                  nr_expanded_states |-> run.nr_expanded_states,
                  max_nr_stored_states |-> run.max_nr_stored_states,
                  stop_reason |-> StopReason(run)]
    /\ pc' = "done"
    /\ UNCHANGED <<open, close, last, solver, problem, mem, run, pending, peak, hist>>

Next ==
    \/ Construct
    \/ InitSolver
    \/ Seed
    \/ ExtractNextSearchNodeToExpand
    \/ CheckNode
    \/ HandleSuccessor
    \/ ReturnResult

Spec == Init /\ [][Next]_vars

(***************************************************************************)
(* solve_problem as the sequential code it is: a call that can take its    *)
(* next step takes it.  The configurations are those with a budget, and    *)
(* those with close and a policy that pushes only states that are in        *)
(* neither open nor close.                                                 *)
(***************************************************************************)
InitFair ==
    /\ Init
    /\ \/ solver.max_nr_states_to_expand # None
       \/ solver.use_close /\ solver.policy = "push_if_new"

FairSpec == InitFair /\ [][Next]_vars /\ WF_vars(Next)

(***************************************************************************)
(* The same engine object used for two calls of solve_problem in sequence. *)
(***************************************************************************)
TwiceProblems ==
    ChainProblems \cup {p \in GraphProblems : p.goals \in {{}, {3}} /\ p.edges \in {{1, 3}, {1, 2, 4}}}

InitTwice ==
    /\ Init
    /\ problem \in TwiceProblems

\* Line 113: solve_problem is called again once the call before has returned
\* or raised; the object still holds what that call left in open and close.
SolveAgain ==
    /\ pc \in {"done", "raised"}
    /\ hist.calls < 2
    /\ problem' \in TwiceProblems
    /\ hist' = [hist EXCEPT !.first = [problem |-> problem,
                                       result |-> IF pc = "done" THEN result ELSE NoResult,
                                       choice |-> hist.choice,
                                       stored |-> Stored(open, close)]]
    /\ result' = NoResult
    /\ pc' = "call"
    /\ UNCHANGED <<open, close, last, solver, mem, run, pending, peak>>

NextTwice ==
    \/ Next
    \/ SolveAgain

SpecTwice == InitTwice /\ [][NextTwice]_vars

(***************************************************************************)
(* Properties of the open queue (SpecOpen).                                *)
(***************************************************************************)
\* The order the documentation gives: lowest priority first, then larger
\* g_cost, then smaller hash of the state.
ComesNoLater(a, b) ==
    \/ a.expanding_priority < b.expanding_priority
    \/ a.expanding_priority = b.expanding_priority /\ a.g_cost > b.g_cost
    \/ /\ a.expanding_priority = b.expanding_priority
       /\ a.g_cost = b.g_cost
       /\ Hash(a.state) <= Hash(b.state)

\* C1: every pop_next_node that returns gives a node that was in the queue and
\* whose (priority, -g_cost, hash(state)) is smallest among the nodes that were
\* in the queue when it was called.
C1_PopReturnsSmallestKey ==
    [][(last'.op = "pop_next_node" /\ last'.ok) =>
        /\ last'.ret \in DOMAIN open.nodes_queue
        /\ \A m \in DOMAIN open.nodes_queue : ComesNoLater(last'.ret, m)]_vars

\* C1 witness: a pop chose between two nodes of equal priority and returned
\* the one of larger g_cost.
C1_Witness ==
    /\ last.op = "pop_next_node" /\ last.ok
    /\ \E m \in DOMAIN open.nodes_queue :
        /\ m.expanding_priority = last.ret.expanding_priority
        /\ m.g_cost < last.ret.g_cost

\* C2: the state -> node mapping and the priority structure are in 1:1 sync
\* after every call, failing calls included.
C2_MappingAndHeapInSync ==
    /\ \A s \in DOMAIN open.mapping :
        /\ open.mapping[s] \in DOMAIN open.nodes_queue
        /\ open.mapping[s].state = s
    /\ \A n \in DOMAIN open.nodes_queue :
        /\ n.state \in DOMAIN open.mapping
        /\ open.mapping[n.state] = n

\* C3: has_state(s) is true right after push_node of a node of state s, false
\* right after pop_next_node returns a node of state s or extract_node removes
\* the node of state s, and no other state's has_state changes.
C3_HasStateFollowsPushPopExtract ==
    [][/\ (last'.op = "push_node" /\ last'.ok) =>
            /\ PQ_has_state(open', last'.node.state)
            /\ \A s \in CallerStates : s # last'.node.state =>
                    (PQ_has_state(open', s) <=> PQ_has_state(open, s))
       /\ (last'.op = "pop_next_node" /\ last'.ok) =>
            /\ ~PQ_has_state(open', last'.ret.state)
            /\ \A s \in CallerStates : s # last'.ret.state =>
                    (PQ_has_state(open', s) <=> PQ_has_state(open, s))
       /\ (last'.op = "extract_node" /\ last'.ok) =>
            /\ ~PQ_has_state(open', last'.node.state)
            /\ \A s \in CallerStates : s # last'.node.state =>
                    (PQ_has_state(open', s) <=> PQ_has_state(open, s))]_vars

\* C3 witness: a pop returned a node of one state while another state stays
\* in the queue.
C3_Witness ==
    /\ last.op = "pop_next_node" /\ last.ok
    /\ \E s \in CallerStates : s # last.ret.state /\ PQ_has_state(open, s)

\* C5: a push of a present state, a pop or peek of an empty queue and an
\* extract of a node that is not present (state absent, or another node stored
\* for its state) never return normally.
C5_ContractViolationsFail ==
    [][/\ (last'.op = "push_node" /\ PQ_has_state(open, last'.node.state)) => ~last'.ok
       /\ (last'.op \in {"pop_next_node", "peek_next_node"} /\ PQ_len(open) = 0) => ~last'.ok
       /\ (last'.op = "extract_node" /\ PQ_get_node_by_state(open, last'.node.state) # last'.node)
            => ~last'.ok]_vars

(***************************************************************************)
(* Properties of the close set (SpecClose).                                *)
(***************************************************************************)
StoredNodes(c) == {c[s] : s \in DOMAIN c}

\* C4: has_node(n) is true exactly for the node objects that are stored, and a
\* node of a stored state that is another object than the stored one has
\* has_node false and has_state true.
C4_HasNodeIsIdentity ==
    \A n \in CallerNodes :
        /\ SC_has_node(close, n) <=> n \in StoredNodes(close)
        /\ (\E m \in StoredNodes(close) : m.state = n.state /\ m # n) =>
                (~SC_has_node(close, n) /\ SC_has_state(close, n.state))

\* C4 witness: a node was removed and replaced by another object of the same
\* state and the same fields.
C4_Witness ==
    /\ last.op = "add_node" /\ last.ok
    /\ \E n \in CallerNodes :
        /\ n.id # last.node.id
        /\ n = [last.node EXCEPT !.id = n.id]
        /\ ~SC_has_node(close, n)
        /\ SC_has_node(close, last.node)

\* C6 as stated: add_node of a present state fails by assertion, and
\* remove_node(n) fails whenever n is not the stored node.
C6_RemoveOfNodeNotStoredFails ==
    [][/\ (last'.op = "add_node" /\ SC_has_state(close, last'.node.state)) =>
            (~last'.ok /\ last'.error = "AssertionError")
       /\ (last'.op = "remove_node" /\ ~SC_has_node(close, last'.node)) =>
            (~last'.ok /\ last'.error = "AssertionError")]_vars

\* C6 amended: add_node of a present state fails by assertion; remove_node(n)
\* fails by assertion exactly when no node is stored for n.state, and
\* otherwise removes the node stored for n.state, whether or not it is n;
\* a failing call changes nothing and no call touches another state.
C6_RemoveIsKeyedByState ==
    [][/\ (last'.op = "add_node" /\ SC_has_state(close, last'.node.state)) =>
            (~last'.ok /\ last'.error = "AssertionError" /\ close' = close)
       /\ last'.op = "remove_node" =>
            /\ last'.ok <=> SC_has_state(close, last'.node.state)
            /\ ~last'.ok => (last'.error = "AssertionError" /\ close' = close)
            /\ last'.ok => ~SC_has_state(close', last'.node.state)
            /\ \A s \in CallerStates : s # last'.node.state =>
                    SC_get_node_by_state(close', s) = SC_get_node_by_state(close, s)]_vars

\* C6 witness: remove_node of a node that is not the stored object returned
\* normally and emptied the entry of its state.
C6_Witness ==
    /\ last.op = "remove_node" /\ last.ok
    /\ last.before # NoNode /\ last.before # last.node
    /\ ~SC_has_state(close, last.node.state)

(***************************************************************************)
(* Properties of solve_problem (Spec).                                     *)
(***************************************************************************)
RECURSIVE ReachableFrom(_, _)
ReachableFrom(p, S) ==
    LET Succ(s) == {ExpandStateWithCosts(p, s)[i].successor_state :
                        i \in DOMAIN ExpandStateWithCosts(p, s)}
        T == S \cup UNION {Succ(s) : s \in S}
    IN  IF T = S THEN S ELSE ReachableFrom(p, T)

GoalIsReachable(p) == ReachableFrom(p, {p.initial_state}) \cap p.goals # {}

RECURSIVE Ancestor(_, _)
Ancestor(node, k) == IF k = 0 THEN node ELSE Ancestor(mem[node.parent], k - 1)

\* The returned path follows the parent links of the final node back to a
\* node without parent.
PathIsParentChain ==
    LET path == result.solution_path
        n == Len(path)
    IN  /\ n >= 1
        /\ \A i \in 1..n : path[i] = Ancestor(run.final_search_node, n - i).state
        /\ \A i \in 2..n : Ancestor(run.final_search_node, n - i).parent # 0
        /\ Ancestor(run.final_search_node, n - 1).parent = 0

\* C7: with use_close, no budget, no filter and the policy that pushes every
\* successor whose state is neither in open nor in close, a problem with a
\* reachable goal gets a path from the initial state to a goal state, which is
\* the reversed chain of parent links of the popped goal node; and whatever
\* the configuration, a returned path is such a chain.
C7_PathFromInitialToGoal ==
    pc = "done" =>
        /\ (/\ solver.use_close
            /\ solver.max_nr_states_to_expand = None
            /\ solver.open_criterion = "None"
            /\ solver.policy = "push_if_new"
            /\ GoalIsReachable(problem)) => result.has_path
        /\ result.has_path =>
            /\ Head(result.solution_path) = problem.initial_state
            /\ IsGoal(problem, result.solution_path[Len(result.solution_path)])
            /\ IsGoal(problem, run.next_node_to_expand.state)
            /\ run.final_search_node = run.next_node_to_expand
            /\ PathIsParentChain

\* C7 witness: such a run returned a path of three states.
C7_Witness ==
    /\ pc = "done"
    /\ solver.use_close /\ solver.max_nr_states_to_expand = None
    /\ solver.open_criterion = "None" /\ solver.policy = "push_if_new"
    /\ GoalIsReachable(problem)
    /\ result.has_path /\ Len(result.solution_path) = 3

\* C8: with a budget k, never more than k nodes are expanded, and a run that
\* ended on a popped node that is no goal reports ExceededMaxNrStatesToExpand.
C8_BudgetIsEnforced ==
    solver.max_nr_states_to_expand # None =>
        /\ run.nr_expanded_states <= solver.max_nr_states_to_expand
        /\ pc = "done" =>
            /\ result.nr_expanded_states <= solver.max_nr_states_to_expand
            /\ (/\ run.next_node_to_expand # NoNode
                /\ ~IsGoal(problem, run.next_node_to_expand.state))
                    => result.stop_reason = "ExceededMaxNrStatesToExpand"

\* C8 witness: a budget of 1 was used up by one expansion and stopped the run.
C8_Witness ==
    /\ pc = "done"
    /\ solver.max_nr_states_to_expand = 1
    /\ result.nr_expanded_states = 1
    /\ result.stop_reason = "ExceededMaxNrStatesToExpand"

\* C9: the result tells the three ends of the loop apart, and every finished
\* run ended in exactly one of them.
C9_OutcomesAreDistinguishable ==
    pc = "done" =>
        /\ run.loop_exit \in {"GoalFound", "OpenExhausted", "BudgetExceeded"}
        /\ result.stop_reason = "ExceededMaxNrStatesToExpand"
                <=> run.loop_exit = "BudgetExceeded"
        /\ (result.stop_reason = "CompletedRunSuccessfully" /\ result.has_path)
                <=> run.loop_exit = "GoalFound"
        /\ (result.stop_reason = "CompletedRunSuccessfully" /\ ~result.has_path)
                <=> run.loop_exit = "OpenExhausted"
        /\ run.loop_exit = "GoalFound" <=> IsGoal(problem, run.next_node_to_expand.state)
        /\ run.loop_exit = "OpenExhausted" <=> run.next_node_to_expand = NoNode

\* C9 witness: a run ended by the budget after at least one expansion.
C9_Witness ==
    /\ pc = "done"
    /\ run.loop_exit = "BudgetExceeded"
    /\ result.nr_expanded_states >= 1

\* C10 as stated: max_nr_stored_states of the result is the largest
\* len(open) + len(close) of any point of the run, for every policy.
C10_MaxStoredIsPeakAtAnyPoint ==
    pc = "done" => result.max_nr_stored_states = peak.any

\* C10 amended: max_nr_stored_states is at least len(open) + len(close) at
\* every point between two statements of solve_problem, and the result's value
\* is the largest of these; what a call of _open_successor_node stores in the
\* middle of its work is not counted.
C10_MaxStoredIsPeakBetweenStatements ==
    /\ pc # "call" =>
        /\ run.max_nr_stored_states >= Stored(open, close)
        /\ run.max_nr_stored_states = peak.seen
    /\ pc = "done" => result.max_nr_stored_states = peak.seen

\* C10 witness: a policy that evicts after pushing went through a larger
\* count than the result reports.
C10_Witness ==
    /\ pc = "done"
    /\ result.max_nr_stored_states < peak.any
    /\ result.max_nr_stored_states = peak.seen

\* The uniform-cost strategy on a linear chain: priority g_cost, no filter, and
\* a successor is pushed iff its state is neither in open nor in close.
UniformCostOnChain ==
    /\ problem.chain >= 2
    /\ solver.priority = "g_cost"
    /\ solver.open_criterion = "None"
    /\ solver.policy = "push_if_new"

\* C11: on the chain 1 -> ... -> n without budget the result is the path
\* <<1, ..., n>>, n - 1 expanded states and CompletedRunSuccessfully.
C11_ChainIsSolved ==
    (pc = "done" /\ UniformCostOnChain /\ solver.max_nr_states_to_expand = None) =>
        /\ result.has_path
        /\ result.solution_path = [i \in 1..problem.chain |-> i]
        /\ result.nr_expanded_states = problem.chain - 1
        /\ result.stop_reason = "CompletedRunSuccessfully"

\* C11 witness: the chain of four states gave the path of four states after
\* three expansions.
C11_Witness ==
    /\ pc = "done" /\ UniformCostOnChain /\ solver.max_nr_states_to_expand = None
    /\ problem.chain = 4
    /\ result.solution_path = <<1, 2, 3, 4>>
    /\ result.nr_expanded_states = 3

\* C12: on the chain of n states with a budget k < n - 1 the result has no
\* path, ExceededMaxNrStatesToExpand and k expanded states.
C12_ChainCutByBudget ==
    (/\ pc = "done" /\ UniformCostOnChain
     /\ solver.max_nr_states_to_expand # None
     /\ solver.max_nr_states_to_expand < problem.chain - 1) =>
        /\ ~result.has_path
        /\ result.stop_reason = "ExceededMaxNrStatesToExpand"
        /\ result.nr_expanded_states = solver.max_nr_states_to_expand

\* C12 witness: the chain of four states with a budget of 1.
C12_Witness ==
    /\ pc = "done" /\ UniformCostOnChain
    /\ problem.chain = 4 /\ solver.max_nr_states_to_expand = 1
    /\ ~result.has_path /\ result.nr_expanded_states = 1

\* C13: when the initial state has no successor and no state is a goal, a run
\* without budget or with a budget of at least 1 gives no path,
\* CompletedRunSuccessfully and one expanded state, with and without close.
C13_NoSuccessorsNoGoal ==
    (/\ pc = "done"
     /\ ExpandStateWithCosts(problem, problem.initial_state) = << >>
     /\ problem.goals = {}
     /\ (solver.max_nr_states_to_expand = None \/ solver.max_nr_states_to_expand >= 1)) =>
        /\ ~result.has_path
        /\ result.stop_reason = "CompletedRunSuccessfully"
        /\ result.nr_expanded_states = 1

\* C13 witness: such a run without close and with a budget of 1.
C13_Witness ==
    /\ pc = "done"
    /\ ExpandStateWithCosts(problem, problem.initial_state) = << >>
    /\ problem.goals = {}
    /\ ~solver.use_close /\ solver.max_nr_states_to_expand = 1
    /\ result.nr_expanded_states = 1

\* The nodes of close.
ClosedNodes == {close[s] : s \in DOMAIN close}

\* C14 as stated: with use_close every node of close was popped from open, and
\* it was expanded or is the popped node of a loop that has not ended; this is
\* to hold in the terminal states too.
C14_ClosedNodesAreExpanded ==
    solver.use_close =>
        \A n \in ClosedNodes :
            /\ n.id \in hist.popped
            /\ \/ n.id \in hist.expanded
               \/ n = run.next_node_to_expand /\ run.loop_exit = ""

\* C14 amended: every node of close was popped from open, and it was expanded
\* or is the last popped node, which is under test or is the node the loop
\* ended on (the goal node of GoalFound, the node BudgetExceeded refused).
C14_ClosedNodesArePoppedAndAllButLastExpanded ==
    solver.use_close =>
        \A n \in ClosedNodes :
            /\ n.id \in hist.popped
            /\ \/ n.id \in hist.expanded
               \/ /\ n = run.next_node_to_expand
                  /\ \/ pc = "check"
                     \/ pc \in {"return", "done"} /\ run.loop_exit \in {"GoalFound", "BudgetExceeded"}

\* C14 witness: a run with close ended on a node of close that was never
\* expanded, next to a node of close that was.
C14_Witness ==
    /\ solver.use_close
    /\ pc = "done"
    /\ run.loop_exit = "BudgetExceeded"
    /\ run.next_node_to_expand \in ClosedNodes
    /\ run.next_node_to_expand.id \notin hist.expanded
    /\ \E n \in ClosedNodes : n.id \in hist.expanded

\* The nodes of open, and open without a node.
OpenNodes(q) == DOMAIN q.nodes_queue

MinimumOfOpen(q, node) == node \in OpenNodes(q) /\ \A m \in OpenNodes(q) : ComesNoLater(node, m)

PoppedFrom(q, node, q1) ==
    /\ OpenNodes(q1) = OpenNodes(q) \ {node}
    /\ ~PQ_has_state(q1, node.state)
    /\ \A m \in OpenNodes(q1) : PQ_get_node_by_state(q1, m.state) = m

\* What C15 says of a call on a non-empty open that gave the node: it was a
\* minimum of open, is no longer in open, and is in close iff use_close, the
\* stored count being the same with close and one less without.
ExtractedAndClosed(node) ==
    /\ MinimumOfOpen(open, node)
    /\ PoppedFrom(open, node, open')
    /\ IF solver.use_close
       THEN /\ SC_has_node(close', node)
            /\ \A s \in DOMAIN close : SC_has_node(close', close[s])
            /\ Stored(open', close') = Stored(open, close)
       ELSE /\ close' = close
            /\ Stored(open', close') = Stored(open, close) - 1

\* C15 as stated: every call of the default
\* _extract_next_search_node_to_expand returns none iff open is empty, leaving
\* open and close as they were, and otherwise returns a minimum node of open
\* that it has taken out of open and, iff use_close, put into close.
C15_ExtractPopsAndCloses ==
    [][pc = "loop" /\ pc' # "loop" =>
        /\ pc' = "check"
        /\ IF PQ_is_empty(open)
           THEN run'.next_node_to_expand = NoNode /\ open' = open /\ close' = close
           ELSE run'.next_node_to_expand # NoNode
                    /\ ExtractedAndClosed(run'.next_node_to_expand)]_vars

\* C15 amended: the same for every call that returns; and a call on a
\* non-empty open whose minimum node has a state that close already holds
\* (use_close) raises the assertion of add_node after the pop: the node is
\* out of open, close is as it was, and the stored count is one less.
C15_ExtractPopsAndClosesOrRaises ==
    [][pc = "loop" /\ pc' # "loop" =>
        IF PQ_is_empty(open)
        THEN pc' = "check" /\ run'.next_node_to_expand = NoNode
                /\ open' = open /\ close' = close
        ELSE \E node \in OpenNodes(open) :
                /\ MinimumOfOpen(open, node)
                /\ PoppedFrom(open, node, open')
                /\ IF solver.use_close /\ SC_has_state(close, node.state)
                   THEN /\ pc' = "raised"
                        /\ close' = close
                        /\ Stored(open', close') = Stored(open, close) - 1
                   ELSE /\ pc' = "check"
                        /\ run'.next_node_to_expand = node
                        /\ ExtractedAndClosed(node)]_vars

\* C15 witness: the second extraction of a run with close returned a node that
\* is now in close, next to the first one, with a node left in open.
C15_Witness ==
    /\ pc = "check" /\ solver.use_close
    /\ hist.extractions = 2
    /\ run.next_node_to_expand # NoNode
    /\ SC_has_node(close, run.next_node_to_expand)
    /\ SC_len(close) = 2
    /\ ~PQ_is_empty(open)

\* The expanded count has reached the budget.
CountHasReachedBudget ==
    /\ solver.max_nr_states_to_expand # None
    /\ run.nr_expanded_states >= solver.max_nr_states_to_expand

\* C16: the goal test comes before the budget test.  A popped goal node ends
\* the loop in GoalFound whatever the count, and the result then has a path
\* and CompletedRunSuccessfully; BudgetExceeded is entered exactly for a popped
\* node that is no goal when the count has reached the budget, and then the
\* node is not expanded and the count stays.
C16_GoalTestBeforeBudgetTest ==
    [][/\ (pc = "check" /\ pc' # "check" /\ run.next_node_to_expand # NoNode) =>
            LET node == run.next_node_to_expand
            IN  /\ IsGoal(problem, node.state) =>
                    /\ run'.loop_exit = "GoalFound"
                    /\ run'.final_search_node = node
                    /\ ~run'.exceeded_max_nr_expanded_states
                /\ run'.loop_exit = "BudgetExceeded"
                        <=> (~IsGoal(problem, node.state) /\ CountHasReachedBudget)
                /\ run'.loop_exit = "BudgetExceeded" <=> run'.exceeded_max_nr_expanded_states
                /\ run'.loop_exit \in {"GoalFound", "BudgetExceeded"} =>
                    /\ pc' = "return"
                    /\ run'.nr_expanded_states = run.nr_expanded_states
                    /\ node.id \notin hist'.expanded
                    /\ pending' = << >>
                    /\ mem' = mem /\ open' = open /\ close' = close
       /\ (pc = "return" /\ pc' = "done" /\ run.loop_exit = "GoalFound") =>
            /\ result'.has_path
            /\ result'.stop_reason = "CompletedRunSuccessfully"
            /\ result'.nr_expanded_states = run.nr_expanded_states]_vars

\* C16 witness: with a budget of 0 and a goal initial state the run ended in
\* GoalFound with a path and no expansion.
C16_Witness ==
    /\ pc = "done"
    /\ solver.max_nr_states_to_expand = 0
    /\ IsGoal(problem, problem.initial_state)
    /\ run.loop_exit = "GoalFound"
    /\ result.has_path /\ result.stop_reason = "CompletedRunSuccessfully"
    /\ result.nr_expanded_states = 0

\* C17: in every call _init_solver has run exactly once by the time the
\* initial node is made, it found open and close empty and no node made or
\* scored, and when the loop is first entered open holds exactly the initial
\* node (zero cost, no parent, priority from _calc_node_expanding_priority)
\* and close is empty.
C17_InitSolverOnceBeforeInitialNode ==
    /\ pc \in {"call", "init_solver"} => hist.init_solver_calls = 0
    /\ pc = "init_solver" => open = EmptyQueue /\ close = EmptyCollection
    /\ pc \in {"seed", "loop", "check", "expand", "return", "done", "raised"} =>
        /\ hist.init_solver_calls = 1
        /\ hist.at_init_solver = [open |-> EmptyQueue, close |-> EmptyCollection, created |-> 0]
    /\ pc = "seed" => hist.calc_calls = 0 /\ Len(mem) = hist.mem_base /\ PQ_is_empty(open)
    /\ (pc = "loop" /\ hist.extractions = 0) =>
        /\ Len(mem) = hist.mem_base + 1
        /\ LET node == mem[hist.mem_base + 1]
           IN  /\ OpenNodes(open) = {node}
               /\ PQ_get_node_by_state(open, problem.initial_state) = node
               /\ PQ_len(open) = 1
               /\ node.state = problem.initial_state
               /\ node.parent = 0
               /\ node.g_cost = GetZeroCost
               /\ node.expanding_priority = CalcNodeExpandingPriority(solver, node)
        /\ hist.calc_calls = 1
        /\ close = EmptyCollection

\* C17 witness: the loop is about to be entered for the first time with the
\* initial node scored by the heuristic.
C17_Witness ==
    /\ pc = "loop" /\ hist.extractions = 0
    /\ hist.init_solver_calls = 1
    /\ solver.priority = "heuristic" /\ solver.use_close
    /\ \E node \in OpenNodes(open) : node.expanding_priority = Heuristic(problem.initial_state)
    /\ Heuristic(problem.initial_state) # 0

\* C19: the successors of the expanded node are handled in the order
\* expand_state_with_costs returned them; each gets a new node whose parent is
\* the expanded node and whose priority _calc_node_expanding_priority computed
\* in one call; _open_successor_node is called for it iff open_criterion is
\* None or accepts it, and a rejected successor leaves open and close as they
\* were.
C19_SuccessorsScoredFilteredOffered ==
    [][/\ (pc = "check" /\ pc' \in {"loop", "expand"}) =>
            /\ pending' = ExpandStateWithCosts(problem, run.next_node_to_expand.state)
            /\ pc' = "loop" <=> pending' = << >>
       /\ pc = "expand" /\ pc' # pc => pc' = "loop" /\ Len(pending) = 1
       /\ (pc = "expand" /\ mem' # mem) =>
            /\ Len(mem') = Len(mem) + 1
            /\ pending' = Tail(pending)
            /\ LET operator_result == Head(pending)
                   parent == run.next_node_to_expand
                   node == mem'[Len(mem')]
               IN  /\ node.id = Len(mem')
                   /\ node.state = operator_result.successor_state
                   /\ node.parent = parent.id
                   /\ node.g_cost = parent.g_cost + operator_result.operator_cost
                   /\ node.expanding_priority = CalcNodeExpandingPriority(solver, node)
                   /\ run'.successor_node = node
                   /\ run'.next_node_to_expand = parent
                   /\ hist'.calc_calls = hist.calc_calls + 1
                   /\ hist'.hook_called
                        <=> (solver.open_criterion = "None" \/ CriterionAccepts(solver, node))
                   /\ ~hist'.hook_called => open' = open /\ close' = close]_vars

\* C19 witness: of the two successors of state 1 the first was accepted and
\* pushed, the second rejected by the filter.
C19_Witness ==
    /\ pc \in {"loop", "expand"}
    /\ solver.open_criterion = "cheap"
    /\ ~hist.hook_called
    /\ run.successor_node.state = 3 /\ run.successor_node.g_cost = 3
    /\ run.successor_node.parent = run.next_node_to_expand.id
    /\ PQ_has_state(open, 2) /\ ~PQ_has_state(open, 3)

\* C18: in the second of two calls on the same object, from the construction
\* of open and close on, no node of the first call is in open or close and
\* the call starts from the state a new object starts from; and when the
\* second problem is the first one again and neither call met a choice (a tie
\* in open, a policy with several effects), the second result (path, expanded
\* states, stored states, stop reason) is the result of the first call, which
\* ran on a new object.  Whatever the first problem was, the second call gives
\* on a chain, and on a problem without successors and goals, the result a
\* new object gives there.
C18_SecondRunIsFresh ==
    hist.calls = 2 =>
        /\ C11_ChainIsSolved /\ C12_ChainCutByBudget /\ C13_NoSuccessorsNoGoal
        /\ \A n \in OpenNodes(open) \cup ClosedNodes : n.id > hist.mem_base
        /\ pc = "init_solver" =>
            /\ open = EmptyQueue /\ close = EmptyCollection
            /\ run = NoRun /\ pending = << >> /\ result = NoResult
        /\ (/\ pc = "done"
            /\ problem = hist.first.problem
            /\ ~hist.choice /\ ~hist.first.choice
            /\ hist.first.result # NoResult) => result = hist.first.result
        /\ (/\ pc = "raised"
            /\ problem = hist.first.problem
            /\ ~hist.choice /\ ~hist.first.choice) => hist.first.result = NoResult

\* C18 witness: the first call found a path and left nodes in open and close;
\* the second call on the same problem gave the same result.
C18_Witness ==
    /\ hist.calls = 2 /\ pc = "done"
    /\ problem = hist.first.problem
    /\ ~hist.choice /\ ~hist.first.choice
    /\ hist.first.stored > 1
    /\ hist.first.result.has_path
    /\ result = hist.first.result
    /\ solver.use_close

\* The three ends of the loop.
LoopEnded(exits) == pc \in {"return", "done"} /\ run.loop_exit \in exits

WithBudget == solver.max_nr_states_to_expand # None

ClosedAndPushIfNew ==
    /\ solver.max_nr_states_to_expand = None
    /\ solver.use_close
    /\ solver.policy = "push_if_new"

\* C20 as stated: with a budget k the loop reaches GoalFound, OpenExhausted or
\* BudgetExceeded after at most k + 1 extractions, for every admission policy;
\* without budget, with close and a policy that never pushes a state that is
\* in open or close, it reaches GoalFound or OpenExhausted.
C20_LoopReachesAnEnd ==
    /\ [](WithBudget => hist.extractions <= solver.max_nr_states_to_expand + 1)
    /\ (pc = "call" /\ WithBudget)
            ~> LoopEnded({"GoalFound", "OpenExhausted", "BudgetExceeded"})
    /\ (pc = "call" /\ ClosedAndPushIfNew) ~> LoopEnded({"GoalFound", "OpenExhausted"})

\* C20 amended: with a budget k the call makes at most k + 1 extractions and
\* the loop reaches one of the three ends, or the call ends in the assertion
\* of close.add_node raised by an extraction (use_close and a policy that
\* pushed a state close holds); the second half as stated.
C20_LoopReachesAnEndOrRaises ==
    /\ [](WithBudget => hist.extractions <= solver.max_nr_states_to_expand + 1)
    /\ [](pc = "raised" => solver.use_close /\ solver.policy # "push_if_new"
                            /\ hist.extractions >= 3)
    /\ (pc = "call" /\ WithBudget)
            ~> (LoopEnded({"GoalFound", "OpenExhausted", "BudgetExceeded"}) \/ pc = "raised")
    /\ (pc = "call" /\ ClosedAndPushIfNew) ~> LoopEnded({"GoalFound", "OpenExhausted"})

\* C20 witness: a budget of 2 ended the run at the third extraction.
C20_Witness ==
    /\ pc = "done"
    /\ solver.max_nr_states_to_expand = 2
    /\ hist.extractions = 3
    /\ run.loop_exit = "BudgetExceeded"
    /\ solver.policy # "push_if_new"

====
